---- MODULE Spec2Model ----
(***************************************************************************)
(* Model of src/main.py, the file deletion utility: one run of the entry   *)
(* point reads a path, inspects the file, backs it up, asks for            *)
(* confirmation and moves the file to ~/.trash, logging each outcome.      *)
(*                                                                         *)
(* Strings are sequences of one-character strings, so that strip, lower,   *)
(* splitext, join and the generated names are computed as the code         *)
(* computes them.  The filesystem is a function from absolute paths of     *)
(* regular files to their contents (sequences of bytes); every filesystem  *)
(* call that can fail takes its outcome as an argument, and the actions    *)
(* draw that outcome from the outcomes the platform can produce.           *)
(***************************************************************************)
EXTENDS Integers, Sequences, FiniteSets, TLC

\* ------------------------------------------------------------------ bounds

\* datetime.now() ranges over the seconds 0..MaxClock.
MaxClock == 1
\* Direct calls of backup_file and move_to_trash go on until they have created
\* MaxNew files.
MaxNew == 2

\* ------------------------------------------------------- optional values

\* Optional[T]: None is the empty sequence, a value v is <<v>>.
None == <<>>
Some(v) == <<v>>

\* ----------------------------------------------------------- str methods

Whitespace == {" ", "\t", "\n"}
Quotes == {"\"", "'"}
UpperCase == <<"A","B","C","D","E","F","G","H","I","J","K","L","M",
               "N","O","P","Q","R","S","T","U","V","W","X","Y","Z">>
LowerCase == <<"a","b","c","d","e","f","g","h","i","j","k","l","m",
               "n","o","p","q","r","s","t","u","v","w","x","y","z">>
Digits == <<"0","1","2","3","4","5","6","7","8","9">>

\* str.lstrip(chars): s from its first character outside cs.
LStrip(s, cs) ==
  IF \A i \in DOMAIN s : s[i] \in cs THEN <<>>
  ELSE SubSeq(s, CHOOSE k \in DOMAIN s :
                   s[k] \notin cs /\ \A j \in 1..(k - 1) : s[j] \in cs,
              Len(s))

\* str.rstrip(chars): s up to its last character outside cs.
RStrip(s, cs) ==
  IF \A i \in DOMAIN s : s[i] \in cs THEN <<>>
  ELSE SubSeq(s, 1, CHOOSE k \in DOMAIN s :
                      s[k] \notin cs /\ \A j \in (k + 1)..Len(s) : s[j] \in cs)

\* str.strip(chars); str.strip() is Strip(s, Whitespace).
Strip(s, cs) == RStrip(LStrip(s, cs), cs)

LowerChar(c) ==
  IF \E i \in DOMAIN UpperCase : UpperCase[i] = c
  THEN LowerCase[CHOOSE i \in DOMAIN UpperCase : UpperCase[i] = c]
  ELSE c

\* str.lower()
Lower(s) == [i \in DOMAIN s |-> LowerChar(s[i])]

\* str.rfind(c) + 1: the last position of c in s, 0 when absent.
RFind(s, c) ==
  IF \E i \in DOMAIN s : s[i] = c
  THEN CHOOSE i \in DOMAIN s : s[i] = c /\ \A j \in (i + 1)..Len(s) : s[j] # c
  ELSE 0

\* str.find(c, k - 1) + 1: the first position of c in s at or after k,
\* Len(s) + 1 when there is none.
FindFrom(s, c, k) ==
  IF \E i \in k..Len(s) : s[i] = c
  THEN CHOOSE i \in k..Len(s) : s[i] = c /\ \A j \in k..(i - 1) : s[j] # c
  ELSE Len(s) + 1

\* str(n) for a natural number n.
RECURSIVE IntToStr(_)
IntToStr(n) ==
  IF n < 10 THEN <<Digits[n + 1]>>
  ELSE IntToStr(n \div 10) \o <<Digits[(n % 10) + 1]>>

\* --------------------------------------------------------------- os.path

\* The process's environment: $HOME and the working directory.
Home == <<"/", "h">>
Cwd == <<"/", "w">>

\* os.path.basename
Basename(p) == SubSeq(p, RFind(p, "/") + 1, Len(p))

\* os.path.dirname
Dirname(p) ==
  LET head == SubSeq(p, 1, RFind(p, "/"))
  IN  IF head # <<>> /\ (\E i \in DOMAIN head : head[i] # "/")
      THEN RStrip(head, {"/"})
      ELSE head

\* os.path.splitext of a base name: <<root, ext>>.  The extension starts at
\* the last dot, unless only dots precede it.
Splitext(p) ==
  LET dot == RFind(p, ".")
  IN  IF dot > 0 /\ (\E i \in 1..(dot - 1) : p[i] # ".")
      THEN <<SubSeq(p, 1, dot - 1), SubSeq(p, dot, Len(p))>>
      ELSE <<p, <<>>>>

\* os.path.join of two parts
Join(a, b) ==
  IF b # <<>> /\ Head(b) = "/" THEN b
  ELSE IF a = <<>> \/ a[Len(a)] = "/" THEN a \o b
  ELSE a \o <<"/">> \o b

\* os.path.expanduser: "~" and "~/..." expand to $HOME; "~user" names no
\* user of the password database and is returned unchanged.
Expanduser(p) ==
  IF p = <<>> \/ Head(p) # "~" THEN p
  ELSE LET i == FindFrom(p, "/", 2)
       IN  IF i = 2
           THEN LET r == RStrip(Home, {"/"}) \o SubSeq(p, i, Len(p))
                IN  IF r = <<>> THEN <<"/">> ELSE r
           ELSE p

\* The components of a path, split at "/".
RECURSIVE Components(_)
Components(p) ==
  IF p = <<>> THEN <<>>
  ELSE LET k == FindFrom(p, "/", 1)
       IN  <<SubSeq(p, 1, k - 1)>> \o Components(SubSeq(p, k + 1, Len(p)))

\* os.path.normpath on the components of an absolute path: empty and "."
\* components are dropped, ".." drops the component before it.
RECURSIVE NormComponents(_, _)
NormComponents(cs, acc) ==
  IF cs = <<>> THEN acc
  ELSE LET c == Head(cs)
       IN  IF c = <<>> \/ c = <<".">> THEN NormComponents(Tail(cs), acc)
           ELSE IF c = <<".", ".">>
           THEN NormComponents(Tail(cs),
                  IF acc = <<>> THEN acc ELSE SubSeq(acc, 1, Len(acc) - 1))
           ELSE NormComponents(Tail(cs), Append(acc, c))

RECURSIVE JoinComponents(_)
JoinComponents(cs) ==
  IF cs = <<>> THEN <<>> ELSE <<"/">> \o Head(cs) \o JoinComponents(Tail(cs))

\* os.path.abspath: normpath(join(cwd, p)).  Files are keyed by it.
Abspath(p) ==
  LET r == JoinComponents(NormComponents(Components(Join(Cwd, p)), <<>>))
  IN  IF r = <<>> THEN <<"/">> ELSE r

\* ------------------------------------------------------------ filesystem

\* ~/.trash, as move_to_trash computes it.
TrashDir == Expanduser(<<"~", "/", ".", "t", "r", "a", "s", "h">>)

\* The directories that exist; td says whether ~/.trash does.
Directories(td) == {<<"/">>, Home, Cwd} \cup (IF td THEN {TrashDir} ELSE {})

\* The file system f with file p holding content c (created or overwritten).
WriteFile(f, p, c) ==
  LET a == Abspath(p)
  IN  [q \in DOMAIN f \cup {a} |-> IF q = a THEN c ELSE f[q]]

\* The file system f without file p.
RemoveFile(f, p) ==
  LET a == Abspath(p)
  IN  [q \in DOMAIN f \ {a} |-> f[q]]

\* os.path.exists: a regular file or a directory.
path_exists(f, td, p) ==
  LET a == Abspath(p)
  IN  a \in DOMAIN f \/ a \in Directories(td)

\* datetime.now().strftime: the date is fixed, the seconds are the clock.
Strftime(now) ==
  <<"0", "1", "_">> \o (IF now < 10 THEN <<"0">> ELSE <<>>) \o IntToStr(now)

\* f"{name}_{timestamp}{ext}" and f"{name}_{timestamp}_{counter}{ext}"
StampedName(name, ts, counter, ext) ==
  name \o <<"_">> \o ts
       \o (IF counter = 0 THEN <<>> ELSE <<"_">> \o IntToStr(counter)) \o ext

\* The outcomes of copying a file of n bytes: done, the source or the
\* destination cannot be opened, or the write fails after k bytes (k = n: the
\* data is written and flushing it or copying the metadata fails).
CopyOutcomes(n) ==
  {[kind |-> "ok", n |-> 0], [kind |-> "open_fail", n |-> 0]}
    \cup {[kind |-> "write_fail", n |-> k] : k \in 0..n}

\* A copy that removes its source once the data is written.
copy2_removes_source(f, src, dst, oc) ==
  LET data == f[Abspath(src)]
  IN  CASE oc.kind = "ok" ->
             [fs |-> RemoveFile(WriteFile(f, dst, data), src), raised |-> FALSE]
        [] oc.kind = "open_fail" -> [fs |-> f, raised |-> TRUE]
        [] OTHER ->
             [fs |-> WriteFile(f, dst, SubSeq(data, 1, oc.n)), raised |-> TRUE]

\* shutil.copy2(src, dst) with outcome oc.
copy2(f, src, dst, oc) ==
  LET data == f[Abspath(src)]
  IN  CASE oc.kind = "ok" -> [fs |-> WriteFile(f, dst, data), raised |-> FALSE]
        [] oc.kind = "open_fail" -> [fs |-> f, raised |-> TRUE]
        [] OTHER ->
             [fs |-> WriteFile(f, dst, SubSeq(data, 1, oc.n)), raised |-> TRUE]

\* The outcomes of shutil.move on a file of n bytes: os.rename succeeds, or it
\* fails and the file is copied and then unlinked, each of which may fail.
MoveOutcomes(n) ==
  {[rename |-> TRUE, copy |-> [kind |-> "ok", n |-> 0], unlink |-> TRUE]}
    \cup {[rename |-> FALSE, copy |-> c, unlink |-> FALSE] : c \in CopyOutcomes(n)}
    \cup {[rename |-> FALSE, copy |-> [kind |-> "ok", n |-> 0], unlink |-> TRUE]}

\* A move whose fallback unlinks the source before it copies it.
shutil_move_unlink_first(f, src, dst, oc) ==
  IF oc.rename
  THEN [fs |-> RemoveFile(WriteFile(f, dst, f[Abspath(src)]), src),
        raised |-> FALSE]
  ELSE LET c == copy2(f, src, dst, oc.copy)
       IN  IF c.raised THEN [fs |-> RemoveFile(c.fs, src), raised |-> TRUE]
           ELSE IF oc.unlink
           THEN [fs |-> RemoveFile(c.fs, src), raised |-> FALSE]
           ELSE [fs |-> c.fs, raised |-> TRUE]

\* shutil.move(src, dst) of a regular file with outcome oc.
shutil_move(f, src, dst, oc) ==
  IF oc.rename
  THEN [fs |-> RemoveFile(WriteFile(f, dst, f[Abspath(src)]), src),
        raised |-> FALSE]
  ELSE LET c == copy2(f, src, dst, oc.copy)
       IN  IF c.raised THEN c
           ELSE IF oc.unlink
           THEN [fs |-> RemoveFile(c.fs, src), raised |-> FALSE]
           ELSE [fs |-> c.fs, raised |-> TRUE]

\* ------------------------------------------------------ utility functions

file_exists(f, p) == Abspath(p) \in DOMAIN f

\* get_file_size: statOk is whether os.path.getsize succeeds.
get_file_size(f, p, statOk) ==
  IF ~file_exists(f, p) THEN None
  ELSE IF statOk THEN Some(Len(f[Abspath(p)])) ELSE None

\* confirm_action's reading of one line: "yes", "no", or "again" (re-prompt).
Affirmative == {<<"y", "e", "s">>, <<"y">>, <<"y", "e">>}
Negative == {<<"n", "o">>, <<"n">>}

\* A confirmation that takes the empty line for a "yes".
confirm_action_default_yes(line) ==
  LET response == Lower(Strip(line, Whitespace))
  IN  IF response \in Affirmative \/ response = <<>> THEN "yes"
      ELSE IF response \in Negative THEN "no"
      ELSE "again"

confirm_action(line) ==
  LET response == Lower(Strip(line, Whitespace))
  IN  IF response \in Affirmative THEN "yes"
      ELSE IF response \in Negative THEN "no"
      ELSE "again"

\* -------------------------------------------------------- file operations

\* A loop that takes the first name without looking whether it is free.
BackupLoop_unchecked(f, td, dir_name, name, ts, ext, backup_path, counter) ==
  backup_path

\* The loop of backup_file: the first free name, counting from counter.
RECURSIVE BackupLoop(_, _, _, _, _, _, _, _)
BackupLoop(f, td, dir_name, name, ts, ext, backup_path, counter) ==
  IF path_exists(f, td, backup_path)
  THEN BackupLoop(f, td, dir_name, name, ts, ext,
         Join(dir_name, StampedName(name, ts, counter, ext) \o <<".", "b", "a", "k">>),
         counter + 1)
  ELSE backup_path

\* backup_file(path) at time now, the copy ending as oc.  ret is the value
\* returned; dest is the path handed to copy2, original the first name tried,
\* raised whether the copy raised.
backup_file(f, td, p, now, oc) ==
  IF ~file_exists(f, p)
  THEN [fs |-> f, ret |-> None, dest |-> None, original |-> None,
        raised |-> FALSE, out |-> "backup_skipped"]
  ELSE LET dir_name == IF Dirname(p) = <<>> THEN <<".">> ELSE Dirname(p)
           se == Splitext(Basename(p))
           ts == Strftime(now)
           original ==
             Join(dir_name, StampedName(se[1], ts, 0, se[2]) \o <<".", "b", "a", "k">>)
           backup_path == BackupLoop(f, td, dir_name, se[1], ts, se[2], original, 1)
           c == copy2(f, p, backup_path, oc)
       IN  IF ~c.raised
           THEN [fs |-> c.fs, ret |-> Some(backup_path), dest |-> Some(backup_path),
                 original |-> Some(original), raised |-> FALSE,
                 out |-> "backup_created"]
           ELSE [fs |-> c.fs,
                 ret |-> IF path_exists(c.fs, td, original)
                         THEN Some(original) ELSE None,
                 dest |-> Some(backup_path), original |-> Some(original),
                 raised |-> TRUE, out |-> "backup_failed"]

\* The loop of move_to_trash: the first free name after the one tried.
RECURSIVE TrashLoop(_, _, _, _, _, _, _, _)
TrashLoop(f, td, trash_dir, name, ts, ext, dest_path, counter) ==
  IF path_exists(f, td, dest_path)
  THEN TrashLoop(f, td, trash_dir, name, ts, ext,
         Join(trash_dir, StampedName(name, ts, counter + 1, ext)), counter + 1)
  ELSE dest_path

\* move_to_trash(path) at time now: mkOk is whether os.makedirs can create
\* ~/.trash when it is absent, oc the outcome of shutil.move.  crashed: the
\* exception of os.makedirs, raised outside the try block, leaves the function.
move_to_trash(f, td, p, now, mkOk, oc) ==
  IF ~td /\ ~mkOk
  THEN [fs |-> f, td |-> td, ret |-> None, dest |-> None, first |-> None,
        crashed |-> TRUE, out |-> "traceback"]
  ELSE IF ~file_exists(f, p)
  THEN [fs |-> f, td |-> TRUE, ret |-> None, dest |-> None, first |-> None,
        crashed |-> FALSE, out |-> "cannot_move"]
  ELSE LET se == Splitext(Basename(p))
           ts == Strftime(now)
           first == Join(TrashDir, StampedName(se[1], ts, 0, se[2]))
           dest_path == TrashLoop(f, TRUE, TrashDir, se[1], ts, se[2], first, 0)
           m == shutil_move(f, p, dest_path, oc)
       IN  IF ~m.raised
           THEN [fs |-> m.fs, td |-> TRUE, ret |-> Some(Abspath(dest_path)),
                 dest |-> Some(dest_path), first |-> Some(first),
                 crashed |-> FALSE, out |-> "moved"]
           ELSE [fs |-> m.fs, td |-> TRUE, ret |-> None,
                 dest |-> Some(dest_path), first |-> Some(first),
                 crashed |-> FALSE, out |-> "move_failed"]

\* ------------------------------------------------------------ log_action

\* log_action(path, action, success): the line it formats (without its
\* timestamp) and whether the line reached deletion_log.txt; writeOk is
\* whether the file can be opened and appended to.  A failure is printed as a
\* warning and swallowed.
log_action(p, action, success, writeOk) ==
  [status |-> IF success THEN "SUCCESS" ELSE "FAILURE", action |-> action,
   path |-> p, written |-> writeOk]

\* ----------------------------------------------------- analysis functions

\* What each inspection function prints, by the case its code distinguishes;
\* readOk is whether the file can be opened and read.
show_metadata(f, p, statOk) ==
  IF get_file_size(f, p, statOk) # None THEN "metadata" ELSE "metadata_size_unknown"

preview_file(f, p, readOk) ==
  IF ~file_exists(f, p) THEN "none"
  ELSE IF ~readOk THEN "preview_unable"
  ELSE IF Len(f[Abspath(p)]) = 0 THEN "preview_empty" ELSE "preview_lines"

calculate_file_hash(f, p, readOk) ==
  IF ~file_exists(f, p) THEN "none"
  ELSE IF readOk THEN "hash" ELSE "hash_error"

calculate_entropy(f, p, readOk) ==
  IF ~file_exists(f, p) THEN "none"
  ELSE IF ~readOk THEN "entropy_error"
  ELSE IF f[Abspath(p)] = <<>> THEN "entropy_empty" ELSE "entropy"

analyze_size(f, p, statOk) ==
  LET size == get_file_size(f, p, statOk)
  IN  IF size = None THEN "size_unknown"
      ELSE IF size[1] = 0 THEN "size_empty" ELSE "size"

estimate_recreation_effort(size) ==
  IF size = None \/ size[1] <= 0 THEN "effort_unknown" ELSE "effort"

\* ------------------------------------------------------------------ state

VARIABLES
  fs,        \* the regular files: absolute path -> content
  trashDir,  \* whether the directory ~/.trash exists
  clock,     \* the last value datetime.now() returned
  pc,        \* the statement the current run is at
  path,      \* interactive_delete's path
  out,       \* the last line printed
  answer,    \* the line confirm_action read last (None outside lines 263-273)
  log,       \* the log_action calls of the run, in order
  bk,        \* what backup_file did
  mv,        \* what move_to_trash did
  fs0        \* the files as they were when the run started

vars == <<fs, trashDir, clock, pc, path, out, answer, log, bk, mv, fs0>>

NoBackup ==
  [tried |-> FALSE, src |-> <<>>, ret |-> None, dest |-> None, original |-> None,
   raised |-> FALSE]
NoMove ==
  [tried |-> FALSE, ret |-> None, dest |-> None, first |-> None, crashed |-> FALSE]

\* The lines a user types at the prompts.
PathInputs ==
  { <<"a", ".", "t">>,
    <<"'", "a", ".", "t", "'", " ">>,
    <<"~", "/", "b">>,
    <<"\"", "\"">>,
    <<" ">> }
AnswerInputs ==
  { <<"y">>, <<"Y", "e", "s", " ">>, <<"y", "e">>, <<"n", "o">>, <<" ", "N">>,
    <<"m", "a", "y", "b", "e">>, <<>> }

\* The files a behaviour may start with: the two files the inputs name, and
\* files already sitting at the first backup and trash names of second 0.
TargetA == <<"/", "w", "/", "a", ".", "t">>
TargetB == <<"/", "h", "/", "b">>
OccupiedBackup ==
  Join(Cwd, StampedName(<<"a">>, Strftime(0), 0, <<".", "t">>) \o <<".", "b", "a", "k">>)
OccupiedTrash == Join(TrashDir, StampedName(<<"a">>, Strftime(0), 0, <<".", "t">>))
\* File contents are sequences of bytes.  The target starts empty, with one
\* byte or with two; the other files hold a byte that is no prefix of those.
Contents == {<<>>, <<0>>, <<0, 1>>}
Stale == <<1>>

Init ==
  /\ \E a \in Contents, present \in SUBSET {OccupiedBackup, OccupiedTrash} :
       fs = [q \in {TargetA, TargetB} \cup present |->
               IF q = TargetA THEN a ELSE Stale]
  /\ trashDir \in BOOLEAN
  /\ (\E q \in DOMAIN fs : Dirname(q) = TrashDir) => trashDir
  /\ clock = 0
  /\ pc = "idle"
  /\ path = <<>>
  /\ out = "none"
  /\ answer = None
  /\ log = <<>>
  /\ bk = NoBackup
  /\ mv = NoMove
  /\ fs0 = fs

\* ---------------------------------------------------------------- actions

\* A call log_action(path, action, success).
Logged(action, success, writeOk) ==
  log' = Append(log, log_action(path, action, success, writeOk))

\* The entry point (lines 278-289) up to interactive_delete's first statement.
Main(user_input) ==
  /\ pc = "idle"
  /\ IF Strip(user_input, Whitespace) = <<>>
     THEN /\ out' = "no_path"
          /\ pc' = "exit"
          /\ path' = <<>>
     ELSE /\ path' = Expanduser(Strip(Strip(Strip(user_input, Whitespace),
                                             Whitespace), Quotes))
          /\ out' = "initialized"
          /\ pc' = "check"
  /\ UNCHANGED <<fs, trashDir, clock, answer, log, bk, mv, fs0>>

\* An existence check that logs NOT_FOUND and goes on instead of returning.
CheckExists_no_return(writeOk) ==
  /\ pc = "check"
  /\ IF ~file_exists(fs, path)
     THEN /\ Logged("NOT_FOUND", FALSE, writeOk)
          /\ out' = IF writeOk THEN "not_found" ELSE "log_warning"
     ELSE UNCHANGED <<log, out>>
  /\ pc' = "metadata"
  /\ UNCHANGED <<fs, trashDir, clock, path, answer, bk, mv, fs0>>

\* Lines 242-245: the existence check.
CheckExists(writeOk) ==
  /\ pc = "check"
  /\ IF ~file_exists(fs, path)
     THEN /\ Logged("NOT_FOUND", FALSE, writeOk)
          /\ out' = IF writeOk THEN "not_found" ELSE "log_warning"
          /\ pc' = "done"
     ELSE /\ pc' = "metadata"
          /\ UNCHANGED <<log, out>>
  /\ UNCHANGED <<fs, trashDir, clock, path, answer, bk, mv, fs0>>

\* One inspection step (lines 247-252): it prints and changes nothing else.
Inspect(at, next, printed) ==
  /\ pc = at
  /\ pc' = next
  /\ out' = printed
  /\ UNCHANGED <<fs, trashDir, clock, path, answer, log, bk, mv, fs0>>

ShowMetadata(statOk) == Inspect("metadata", "preview", show_metadata(fs, path, statOk))
PreviewFile(readOk) == Inspect("preview", "hash", preview_file(fs, path, readOk))
CalculateFileHash(readOk) ==
  Inspect("hash", "entropy", calculate_file_hash(fs, path, readOk))
CalculateEntropy(readOk) ==
  Inspect("entropy", "size", calculate_entropy(fs, path, readOk))
AnalyzeSize(statOk) == Inspect("size", "effort", analyze_size(fs, path, statOk))
EstimateRecreationEffort(statOk) ==
  Inspect("effort", "backup",
          estimate_recreation_effort(get_file_size(fs, path, statOk)))

\* A backup step that ends the run when no backup was made.
BackupFile_abort_on_failure(now, oc, writeOk) ==
  /\ pc = "backup"
  /\ \E r \in {backup_file(fs, trashDir, path, now, oc)} :
         /\ fs' = r.fs
         /\ bk' = [tried |-> TRUE, src |-> path, ret |-> r.ret, dest |-> r.dest,
                   original |-> r.original, raised |-> r.raised]
         /\ IF r.ret # None
            THEN Logged("BACKUP_CREATED", TRUE, writeOk) /\ pc' = "confirm"
            ELSE UNCHANGED log /\ pc' = "done"
  /\ clock' = now
  /\ out' = "warning_banner"
  /\ UNCHANGED <<trashDir, path, answer, mv, fs0>>

\* Lines 254-261: the backup, its log line, and the warning banner.
BackupFile(now, oc, writeOk) ==
  /\ pc = "backup"
  /\ \E r \in {backup_file(fs, trashDir, path, now, oc)} :
         /\ fs' = r.fs
         /\ bk' = [tried |-> TRUE, src |-> path, ret |-> r.ret, dest |-> r.dest,
                   original |-> r.original, raised |-> r.raised]
         /\ IF r.ret # None
            THEN Logged("BACKUP_CREATED", TRUE, writeOk)
            ELSE UNCHANGED log
  /\ clock' = now
  /\ out' = "warning_banner"
  /\ pc' = "confirm"
  /\ UNCHANGED <<trashDir, path, answer, mv, fs0>>

\* Lines 263 and 271-273: one line read by confirm_action, and the
\* cancellation when it is a "no".
ConfirmAction(line, writeOk) ==
  /\ pc = "confirm"
  /\ answer' = Some(line)
  /\ LET c == confirm_action(line)
     IN  CASE c = "yes" ->
                /\ pc' = "trash"
                /\ UNCHANGED <<out, log>>
           [] c = "no" ->
                /\ Logged("CANCELLED", TRUE, writeOk)
                /\ out' = IF writeOk THEN "cancelled" ELSE "log_warning"
                /\ pc' = "done"
           [] OTHER ->
                /\ out' = "please_respond"
                /\ pc' = "confirm"
                /\ UNCHANGED log
  /\ UNCHANGED <<fs, trashDir, clock, path, bk, mv, fs0>>

\* Lines 264-270: the move to trash and its log line.
MoveToTrash(now, mkOk, oc, writeOk) ==
  /\ pc = "trash"
  /\ \E r \in {move_to_trash(fs, trashDir, path, now, mkOk, oc)} :
         /\ fs' = r.fs
         /\ trashDir' = r.td
         /\ mv' = [tried |-> TRUE, ret |-> r.ret, dest |-> r.dest,
                   first |-> r.first, crashed |-> r.crashed]
         /\ IF r.crashed
            THEN /\ pc' = "crashed"
                 /\ out' = r.out
                 /\ clock' = clock
                 /\ UNCHANGED log
            ELSE /\ pc' = "done"
                 /\ out' = IF r.ret # None THEN "success" ELSE "failure"
                 /\ clock' = now
                 /\ Logged("MOVED_TO_TRASH", r.ret # None, writeOk)
  /\ answer' = None
  /\ UNCHANGED <<path, bk, fs0>>

Next ==
  \/ \E user_input \in PathInputs : Main(user_input)
  \/ \E writeOk \in BOOLEAN : CheckExists(writeOk)
  \/ \E statOk \in BOOLEAN : ShowMetadata(statOk)
  \/ \E readOk \in BOOLEAN : PreviewFile(readOk)
  \/ \E readOk \in BOOLEAN : CalculateFileHash(readOk)
  \/ \E readOk \in BOOLEAN : CalculateEntropy(readOk)
  \/ \E statOk \in BOOLEAN : AnalyzeSize(statOk)
  \/ \E statOk \in BOOLEAN : EstimateRecreationEffort(statOk)
  \/ \E now \in clock..MaxClock, writeOk \in BOOLEAN :
       \E oc \in CopyOutcomes(IF file_exists(fs, path)
                              THEN Len(fs[Abspath(path)]) ELSE 0) :
         BackupFile(now, oc, writeOk)
  \/ \E line \in AnswerInputs, writeOk \in BOOLEAN : ConfirmAction(line, writeOk)
  \/ \E now \in clock..MaxClock, writeOk \in BOOLEAN,
          mkOk \in (IF trashDir THEN {TRUE} ELSE BOOLEAN) :
       \E oc \in MoveOutcomes(IF file_exists(fs, path)
                              THEN Len(fs[Abspath(path)]) ELSE 0) :
         MoveToTrash(now, mkOk, oc, writeOk)

Spec == Init /\ [][Next]_vars

\* ------------------------------------------- the two operations, called directly

\* The path the direct calls are made on.
CallPaths == {<<"a", ".", "t">>}

\* The files created since the start.
NewFiles == DOMAIN fs \ DOMAIN fs0

\* A call backup_file(p), as a test or another caller makes it.
CallBackupFile(p, now, oc) ==
  /\ pc = "idle"
  /\ Cardinality(NewFiles) < MaxNew
  /\ \E r \in {backup_file(fs, trashDir, p, now, oc)} :
         /\ fs' = r.fs
         /\ bk' = [tried |-> TRUE, src |-> p, ret |-> r.ret, dest |-> r.dest,
                   original |-> r.original, raised |-> r.raised]
         /\ out' = r.out
  /\ clock' = now
  /\ path' = p
  /\ UNCHANGED <<trashDir, pc, answer, log, mv, fs0>>

\* A call move_to_trash(p).
CallMoveToTrash(p, now, mkOk, oc) ==
  /\ pc = "idle"
  /\ Cardinality(NewFiles) < MaxNew
  /\ \E r \in {move_to_trash(fs, trashDir, p, now, mkOk, oc)} :
         /\ fs' = r.fs
         /\ trashDir' = r.td
         /\ mv' = [tried |-> TRUE, ret |-> r.ret, dest |-> r.dest,
                   first |-> r.first, crashed |-> r.crashed]
         /\ out' = r.out
         /\ clock' = IF r.crashed THEN clock ELSE now
  /\ path' = p
  /\ UNCHANGED <<pc, answer, log, bk, fs0>>

NextCalls ==
  \/ \E p \in CallPaths, now \in clock..MaxClock :
       \E oc \in CopyOutcomes(IF file_exists(fs, p) THEN Len(fs[Abspath(p)]) ELSE 0) :
         CallBackupFile(p, now, oc)
  \/ \E p \in CallPaths, now \in clock..MaxClock,
          mkOk \in (IF trashDir THEN {TRUE} ELSE BOOLEAN) :
       \E oc \in MoveOutcomes(IF file_exists(fs, p) THEN Len(fs[Abspath(p)]) ELSE 0) :
         CallMoveToTrash(p, now, mkOk, oc)

SpecCalls == Init /\ [][NextCalls]_vars

\* ------------------------------------------------------------- properties

\* The file interactive_delete works on, and the last log_action call.
Target == Abspath(path)
LastLog == log[Len(log)]
TerminalActions == {"NOT_FOUND", "MOVED_TO_TRASH", "CANCELLED"}

\* The files created under ~/.trash since the start.
NewTrashFiles == {q \in NewFiles : Dirname(q) = TrashDir}

\* The answers of AnswerInputs that say yes, and those that say no.
SaysYes == {<<"y">>, <<"Y", "e", "s", " ">>, <<"y", "e">>}
SaysNo == {<<"n", "o">>, <<" ", "N">>}

\* What a direct call prints.
BackupPrints == {"backup_skipped", "backup_created", "backup_failed"}
MovePrints == {"traceback", "cannot_move", "moved", "move_failed"}

\* C1: no run ends with an exception leaving interactive_delete, and a run
\* that has ended has logged exactly one terminal state (NOT_FOUND,
\* MOVED_TO_TRASH or CANCELLED), as its last log_action call.
C1_EndsCleanAndLogged ==
  /\ pc # "crashed"
  /\ pc = "done" =>
       /\ log # <<>>
       /\ LastLog.action \in TerminalActions
       /\ Cardinality({i \in DOMAIN log : log[i].action \in TerminalActions}) = 1

\* C2: when move_to_trash has returned a path, the target is gone from its
\* path and that path is the one new file under ~/.trash, holding the content
\* the target had; and in every state, a new file under ~/.trash implies that
\* the target is gone from its path.
C2_TrashRecordMeansMoved ==
  /\ mv.ret # None =>
       /\ Target \notin DOMAIN fs
       /\ NewTrashFiles = {mv.ret[1]}
       /\ fs[mv.ret[1]] = fs0[Target]
  /\ NewTrashFiles # {} => Target \notin DOMAIN fs

\* C3: a call of backup_file or move_to_trash leaves every file that exists
\* with its content, except the source a move takes away; the path it writes
\* is the path of no existing file; and a backup call made while the backup
\* of an earlier call exists writes another path and leaves that backup intact.
C3_NeverOverwrites ==
  [][ /\ \A q \in DOMAIN fs :
           \/ q \in DOMAIN fs' /\ fs'[q] = fs[q]
           \/ out' \in MovePrints /\ q = Abspath(path')
      /\ (out' \in BackupPrints /\ bk'.dest # None)
           => Abspath(bk'.dest[1]) \notin DOMAIN fs
      /\ (out' \in MovePrints /\ mv'.dest # None)
           => Abspath(mv'.dest[1]) \notin DOMAIN fs
      /\ ( /\ out' \in BackupPrints /\ bk'.dest # None /\ bk'.src = bk.src
           /\ bk.dest # None /\ Abspath(bk.dest[1]) \in DOMAIN fs )
           => /\ bk'.dest # bk.dest
              /\ fs'[Abspath(bk.dest[1])] = fs[Abspath(bk.dest[1])]
    ]_vars

\* C3's case: a second backup call found the first name taken by the backup
\* of an earlier call, wrote another path, and the earlier backup is intact.
C3_Witness ==
  /\ bk.dest # None /\ bk.ret = bk.dest /\ bk.dest # bk.original
  /\ Abspath(bk.original[1]) \in NewFiles
  /\ Abspath(bk.dest[1]) \in NewFiles
  /\ Target \in DOMAIN fs
  /\ fs[Abspath(bk.original[1])] = fs[Target]

\* C4: when move_to_trash was called on an existing source and returned None,
\* the source is at its path with its content, and the last log_action call
\* is MOVED_TO_TRASH as a failure.
C4_FailedMoveKeepsSource ==
  (pc = "done" /\ mv.tried /\ ~mv.crashed /\ mv.ret = None /\ Target \in DOMAIN fs0) =>
     /\ Target \in DOMAIN fs
     /\ fs[Target] = fs0[Target]
     /\ log # <<>>
     /\ LastLog.action = "MOVED_TO_TRASH"
     /\ LastLog.status = "FAILURE"

\* C4's case: shutil.move copied the file to ~/.trash and failed to unlink it.
C4_Witness ==
  /\ pc = "done" /\ mv.tried /\ ~mv.crashed /\ mv.ret = None
  /\ Target \in DOMAIN fs0
  /\ NewTrashFiles # {}

\* C5: at the confirmation, the run goes on to the move only on a yes; a no
\* ends it with CANCELLED logged as a success, no move attempted and the files
\* as they were; any other line leaves everything but the prompt as it was
\* and asks again; a yes or a no ends the prompting.
C5_ConfirmationGate ==
  [][pc = "confirm" =>
       /\ pc' = "trash" => answer'[1] \in SaysYes
       /\ answer'[1] \in SaysYes => pc' = "trash" /\ fs' = fs /\ ~mv'.tried
       /\ answer'[1] \in SaysNo =>
            /\ pc' = "done"
            /\ ~mv'.tried
            /\ fs' = fs /\ trashDir' = trashDir
            /\ Target \in DOMAIN fs'
            /\ Len(log') = Len(log) + 1
            /\ log'[Len(log')].action = "CANCELLED"
            /\ log'[Len(log')].status = "SUCCESS"
       /\ answer'[1] \notin SaysYes \cup SaysNo =>
            /\ pc' = "confirm"
            /\ <<fs, trashDir, clock, path, log, bk, mv>>'
                 = <<fs, trashDir, clock, path, log, bk, mv>>
  ]_vars

\* C5's case: the answer " N" ended the run as CANCELLED, the target in place.
C5_Witness ==
  /\ pc = "done" /\ answer = Some(<<" ", "N">>)
  /\ LastLog.action = "CANCELLED"
  /\ ~mv.tried
  /\ Target \in DOMAIN fs

\* C6: when the path names no regular file at the existence check, the run
\* ends there: NOT_FOUND is logged as a failure, it is the only log_action
\* call, no file and no directory is created, no backup, prompt or move is
\* made, and nothing follows.
C6_NotFoundEndsRun ==
  /\ [][(pc = "check" /\ Target \notin DOMAIN fs) =>
          /\ pc' = "done"
          /\ Len(log') = 1
          /\ log'[1].action = "NOT_FOUND" /\ log'[1].status = "FAILURE"
          /\ fs' = fs /\ trashDir' = trashDir
          /\ bk' = NoBackup /\ mv' = NoMove /\ answer' = None]_vars
  /\ [][pc # "done"]_vars

\* C6's case: a run ended as NOT_FOUND with ~/.trash still absent.
C6_Witness ==
  /\ pc = "done" /\ Target \notin DOMAIN fs0
  /\ LastLog.action = "NOT_FOUND"
  /\ fs = fs0 /\ ~trashDir

\* C7: when the copy of backup_file raised, backup_file returned None, the
\* source is in place with its content, and BACKUP_CREATED is not logged.
C7_FailedCopyIsReported ==
  (pc = "confirm" /\ bk.raised) =>
     /\ bk.ret = None
     /\ \A i \in DOMAIN log : log[i].action # "BACKUP_CREATED"
     /\ Target \in DOMAIN fs
     /\ fs[Target] = fs0[Target]

\* C8: once backup_file has returned a path, a file is at that path with the
\* content the target had at the backup, in every later state of the run; and
\* until the move the target is in place with the same content.
C8_BackupIdenticalAndIndependent ==
  bk.ret # None =>
     /\ Abspath(bk.ret[1]) \in DOMAIN fs
     /\ fs[Abspath(bk.ret[1])] = fs0[Target]
     /\ pc \in {"confirm", "trash"} =>
          Target \in DOMAIN fs /\ fs[Target] = fs0[Target]

Following ==
  [check |-> "metadata", metadata |-> "preview", preview |-> "hash",
   hash |-> "entropy", entropy |-> "size", size |-> "effort",
   effort |-> "backup", backup |-> "confirm"]

\* C10: in a run whose target exists at the existence check, every statement
\* before the confirmation is followed by the next one, the backup by the
\* confirmation whether it returned a path or not; the backup has been
\* attempted when the confirmation is reached; a yes then starts the move.
C10_BackupNeverBlocks ==
  /\ []((pc \in DOMAIN Following /\ pc # "check") => Target \in DOMAIN fs)
  /\ [][(pc \in DOMAIN Following /\ Target \in DOMAIN fs) => pc' = Following[pc]]_vars
  /\ [](pc \in {"confirm", "trash"} => bk.tried)
  /\ [][(pc = "confirm" /\ answer'[1] \in SaysYes) => pc' = "trash"]_vars
  /\ [][pc = "trash" => mv'.tried]_vars

\* C10's case: the backup returned None and the file was moved to trash.
C10_Witness ==
  /\ pc = "done" /\ bk.tried /\ bk.ret = None
  /\ mv.ret # None

====
